---- MODULE Spec2Model ----
(***************************************************************************)
(* GigaChat_Content_Assistant: the model client (services/llm_client.py),  *)
(* the content service (services/content_gen.py), the document exporter    *)
(* (services/pdf_maker.py: font setup, Markdown markup, document flow) and *)
(* the HTML export (views/longread_tab.py) as state machines.              *)
(*                                                                         *)
(* Texts are sequences of characters/tokens; an absent value (a missing    *)
(* dict key, an unset environment variable, Python's None) is None.        *)
(* Temperatures are written as strings ("0", "0.3", ...).                  *)
(***************************************************************************)
EXTENDS Integers, Sequences, FiniteSets, TLC

VARIABLES
    session,          \* st.session_state: llm_model, llm_temperature
    secrets,          \* st.secrets["gigachat"]: credentials, model
    env,              \* os.environ: GIGACHAT_CREDENTIALS, GIGACHAT_MODEL
    cur,              \* the generate_stream / generate_sync call under way
    callsMade,        \* number of model calls made so far
    prevModel,        \* the model name in the request of the call before cur
    plan,             \* the generate_content_plan call
    gen,              \* the generate_<kind>_stream calls of the content service
    exp,              \* the text-processing call of the document exporter
    fontsRegistered,  \* pdf_maker._FONTS_REGISTERED
    registry,         \* font names registered with pdfmetrics
    regCount,         \* how many callers have performed the registration
    fileRegular,      \* Roboto-Regular.ttf exists
    fileBold,         \* Roboto-Bold.ttf exists
    thr               \* per thread: the generate_pdf call it runs

vars == <<session, secrets, env, cur, callsMade, prevModel, plan, gen, exp,
          fontsRegistered, registry, regCount, fileRegular, fileBold, thr>>

llmVars == <<session, secrets, env, cur, callsMade, prevModel>>
pdfVars == <<fontsRegistered, registry, regCount, fileRegular, fileBold, thr>>

None == "None"

(***************************************************************************)
(* Bounds of the model.                                                    *)
(***************************************************************************)
MaxCalls == 2
MaxChunks == 3

(***************************************************************************)
(* Program constants.                                                      *)
(***************************************************************************)
DefaultTemperature == "0.7"
DefaultModel == "GigaChat-2-Max"

(***************************************************************************)
(* Python truthiness of an optional string and of an optional float.       *)
(***************************************************************************)
TruthyStr(x) == x # None /\ x # ""
TruthyNum(t) == t # None /\ t # "0"

\* x or y
Or(x, y) == IF TruthyStr(x) THEN x ELSE y

\* d.get(key, default) / os.getenv(name, default)
Get(value, default) == IF value # None THEN value ELSE default

(***************************************************************************)
(* The values the configuration layers may hold.                           *)
(***************************************************************************)
SessionModels == {None, "GigaChat-Pro"}
SessionTemps == {None, "0.5"}
ArgTemps == {None, "0", "0.3"}
SecretCredentials == {None, "", "secret-key"}
EnvCredentials == {None, "env-key"}
SecretModels == {None, "GigaChat-Secret"}
EnvModels == {None, "GigaChat-Env"}

NoReq == [temp |-> None, model |-> None]
NoErr == [kind |-> None, cause |-> None]
NoResult == [ok |-> FALSE, text |-> <<>>]

\* The chunks the transport may deliver: no choices, an empty delta, a content
\* delta "a", a content delta "b".
Chunks ==
    { [choices |-> FALSE, content |-> <<>>],
      [choices |-> TRUE, content |-> <<>>],
      [choices |-> TRUE, content |-> <<"a">>],
      [choices |-> TRUE, content |-> <<"b">>] }

NoCall ==
    [kind |-> None, argTemp |-> None, pc |-> "none", req |-> NoReq,
     clientModel |-> None, requests |-> 0, wire |-> <<>>, yielded |-> <<>>,
     fault |-> None, err |-> NoErr, result |-> NoResult,
     sessAtCall |-> [llm_model |-> None, llm_temperature |-> None],
     sessAtStart |-> [llm_model |-> None, llm_temperature |-> None]]

(***************************************************************************)
(* _get_gigachat_client                                                    *)
(***************************************************************************)
\* credentials = secrets.get("credentials") or os.getenv("GIGACHAT_CREDENTIALS")
ResolveCredentials(sec, en) == Or(sec.credentials, en.credentials)

\* model = st.session_state.get("llm_model",
\*             secrets.get("model") or os.getenv("GIGACHAT_MODEL", "GigaChat-2-Max"))
ResolveClientModel(sess, sec, en) ==
    Get(sess.llm_model, Or(sec.model, Get(en.model, DefaultModel)))

\* The factory: raises ValueError when no credential resolves, else a client
\* configured with the layered model.
GetGigachatClient(sess, sec, en) ==
    IF ~TruthyStr(ResolveCredentials(sec, en))
    THEN [ok |-> FALSE, exc |-> "ValueError", model |-> None]
    ELSE [ok |-> TRUE, exc |-> None, model |-> ResolveClientModel(sess, sec, en)]

(***************************************************************************)
(* generate_stream                                                         *)
(***************************************************************************)
\* temp = temperature or st.session_state.get("llm_temperature", 0.7)
ResolveTemp(argTemp, sess) ==
    IF TruthyNum(argTemp) THEN argTemp
    ELSE Get(sess.llm_temperature, DefaultTemperature)

\* A model name remembered from the previous call instead of read anew.
ResolveModelNameCached(sess) ==
    IF prevModel # None THEN prevModel
    ELSE Get(sess.llm_model, DefaultModel)

\* model_name = st.session_state.get("llm_model", "GigaChat-2-Max")
ResolveModelName(sess) == Get(sess.llm_model, DefaultModel)

\* Chat(messages, temperature=temp, max_tokens, model=model_name)
ChatRequest(argTemp, sess) ==
    [temp |-> ResolveTemp(argTemp, sess), model |-> ResolveModelName(sess)]

\* The handler lets the low-level exception through.
OnFailureLeak(c, cause) ==
    [c EXCEPT !.pc = "failed", !.fault = cause,
              !.err = [kind |-> cause, cause |-> None]]

\* The handler starts the request again.
OnFailureRetry(c, cause) ==
    IF c.requests >= 1 /\ c.requests < 2
    THEN [c EXCEPT !.pc = "open", !.fault = cause]
    ELSE [c EXCEPT !.pc = "failed", !.fault = cause,
                   !.err = [kind |-> "RuntimeError", cause |-> cause]]

\* except Exception as e: raise RuntimeError(...) from e
OnFailure(c, cause) ==
    [c EXCEPT !.pc = "failed", !.fault = cause,
              !.err = [kind |-> "RuntimeError", cause |-> cause]]

\* if chunk.choices and chunk.choices[0].delta.content
ChunkHasContent(chunk) == chunk.choices /\ chunk.content # <<>>

RECURSIVE JoinSpaced(_)
\* " ".join(...) in place of "".join(...)
JoinSpaced(frags) ==
    IF frags = <<>> THEN <<>>
    ELSE IF Len(frags) = 1 THEN Head(frags)
    ELSE Head(frags) \o <<" ">> \o JoinSpaced(Tail(frags))

RECURSIVE Join(_)
\* "".join(list(...))
Join(frags) ==
    IF frags = <<>> THEN <<>> ELSE Head(frags) \o Join(Tail(frags))

\* The generator body up to the point where the client is built: lines 163-167.
StartBody(c, clientFails) ==
    LET c1 == [c EXCEPT !.req = ChatRequest(c.argTemp, session),
                        !.sessAtStart = session]
        client == GetGigachatClient(session, secrets, env)
    IN  IF ~client.ok THEN OnFailure(c1, client.exc)
        ELSE IF clientFails THEN OnFailure(c1, "ClientInitError")
        ELSE [c1 EXCEPT !.pc = "open", !.clientModel = client.model]

Terminal(c) == c.pc \in {"done", "failed", "closed"}

\* The caller's thread is inside the generator body (or inside generate_sync).
Running(c) ==
    \/ c.pc \in {"open", "reading"}
    \/ c.kind = "sync" /\ ~Terminal(c) /\ c.pc # "none"

NewCallRecord(kind, argTemp) ==
    [NoCall EXCEPT !.kind = kind, !.argTemp = argTemp, !.pc = "created",
                   !.sessAtCall = session]

\* generate_stream(prompt, temperature) is called: a generator object is made,
\* none of its body runs yet.
CallStream(argTemp) ==
    /\ callsMade < MaxCalls
    /\ cur.pc = "none" \/ Terminal(cur)
    /\ cur' = NewCallRecord("stream", argTemp)
    /\ callsMade' = callsMade + 1
    /\ prevModel' = IF cur.pc = "none" THEN prevModel ELSE cur.req.model
    /\ UNCHANGED <<session, secrets, env, plan, gen, exp, pdfVars>>

\* generate_sync(prompt, temperature): the generator is made and list() starts
\* draining it at once.
CallSync(argTemp, clientFails) ==
    /\ callsMade < MaxCalls
    /\ cur.pc = "none" \/ Terminal(cur)
    /\ prevModel' = IF cur.pc = "none" THEN prevModel ELSE cur.req.model
    /\ cur' = StartBody(NewCallRecord("sync", argTemp), clientFails)
    /\ callsMade' = callsMade + 1
    /\ UNCHANGED <<session, secrets, env, plan, gen, exp, pdfVars>>

\* The consumer asks a stream for its first fragment: the body starts.
StartStream(clientFails) ==
    /\ cur.kind = "stream" /\ cur.pc = "created"
    /\ cur' = StartBody(cur, clientFails)
    /\ UNCHANGED <<session, secrets, env, callsMade, prevModel, plan, gen, exp, pdfVars>>

\* giga.stream(Chat(...)): the one chat request is issued; it may be refused.
OpenRequest(refused) ==
    /\ cur.pc = "open"
    /\ LET c1 == [cur EXCEPT !.requests = @ + 1]
       IN  cur' = IF refused THEN OnFailure(c1, "ApiError")
                  ELSE [c1 EXCEPT !.pc = "reading"]
    /\ UNCHANGED <<session, secrets, env, callsMade, prevModel, plan, gen, exp, pdfVars>>

\* for chunk in response_stream: a chunk arrives; a content delta is yielded.
ReadChunk(chunk) ==
    /\ cur.pc \in {"reading", "suspended"}
    /\ Len(cur.wire) < MaxChunks
    /\ cur' = IF ChunkHasContent(chunk)
              THEN [cur EXCEPT !.wire = Append(@, chunk),
                               !.yielded = Append(@, chunk.content),
                               !.pc = IF cur.kind = "stream" THEN "suspended"
                                      ELSE "reading"]
              ELSE [cur EXCEPT !.wire = Append(@, chunk), !.pc = "reading"]
    /\ UNCHANGED <<session, secrets, env, callsMade, prevModel, plan, gen, exp, pdfVars>>

\* The provider signals the end: the generator returns; generate_sync joins.
EndOfStream ==
    /\ cur.pc \in {"reading", "suspended"}
    /\ cur' = [cur EXCEPT !.pc = "done",
                          !.result = IF cur.kind = "sync"
                                     THEN [ok |-> TRUE, text |-> Join(cur.yielded)]
                                     ELSE NoResult]
    /\ UNCHANGED <<session, secrets, env, callsMade, prevModel, plan, gen, exp, pdfVars>>

\* Reading the next chunk fails.
ReadFails ==
    /\ cur.pc \in {"reading", "suspended"}
    /\ cur' = OnFailure(cur, "NetworkError")
    /\ UNCHANGED <<session, secrets, env, callsMade, prevModel, plan, gen, exp, pdfVars>>

\* The consumer drops a stream it has not drained.
CloseStream ==
    /\ cur.kind = "stream" /\ cur.pc \in {"created", "suspended"}
    /\ cur' = [cur EXCEPT !.pc = "closed"]
    /\ UNCHANGED <<session, secrets, env, callsMade, prevModel, plan, gen, exp, pdfVars>>

\* The user changes the settings; only while no call's body is executing.
SetSession(m, t) ==
    /\ ~Running(cur)
    /\ session # [llm_model |-> m, llm_temperature |-> t]
    /\ session' = [llm_model |-> m, llm_temperature |-> t]
    /\ UNCHANGED <<secrets, env, cur, callsMade, prevModel, plan, gen, exp, pdfVars>>


(***************************************************************************)
(* content_gen._extract_json_from_text                                     *)
(***************************************************************************)
SetMin(S) == CHOOSE x \in S : \A y \in S : x <= y
SetMax(S) == CHOOSE x \in S : \A y \in S : x >= y

NoMatch == [found |-> FALSE, from |-> 0, to |-> 0]

\* '.*?' in place of '.*': the match stops at the first closing bracket.
RegexSearchLazy(text) ==
    LET endsFrom(i) == {j \in (i + 1)..Len(text) : text[j] = "]"}
        starts == {i \in 1..Len(text) : text[i] = "[" /\ endsFrom(i) # {}}
    IN  IF starts = {} THEN NoMatch
        ELSE LET i == SetMin(starts)
             IN  [found |-> TRUE, from |-> i, to |-> SetMin(endsFrom(i))]

\* re.search(r'\[.*\]', text, re.DOTALL): the leftmost position at which the
\* pattern matches; there '.*' takes every character (newlines too) and gives
\* back until a ']' follows, so the match ends at the last ']' after the start.
RegexSearch(text) ==
    LET endsFrom(i) == {j \in (i + 1)..Len(text) : text[j] = "]"}
        starts == {i \in 1..Len(text) : text[i] = "[" /\ endsFrom(i) # {}}
    IN  IF starts = {} THEN NoMatch
        ELSE LET i == SetMin(starts)
             IN  [found |-> TRUE, from |-> i, to |-> SetMax(endsFrom(i))]

\* return match.group(0) if match else text
ExtractJsonFromText(text) ==
    LET match == RegexSearch(text)
    IN  IF match.found THEN SubSeq(text, match.from, match.to) ELSE text

(***************************************************************************)
(* json.loads over a token alphabet: brackets, comma, newline (whitespace), *)
(* a prose word, the literals 5, null and "str", an object without the      *)
(* items field, two well-formed content-plan objects I1 and I2, and an      *)
(* object Bad that lacks a required field.                                  *)
(***************************************************************************)
ScalarTokens == {"5", "null", "str"}
ObjectTokens == {"obj", "I1", "I2", "Bad"}
Alphabet == {"[", "]", ",", "\n", "p"} \cup ScalarTokens \cup ObjectTokens

ParseFail == [ok |-> FALSE, val |-> [t |-> "none", tok |-> None, elems |-> <<>>], next |-> 0]

SkipWs(toks, i) ==
    LET rest == {j \in i..Len(toks) : toks[j] # "\n"}
    IN  IF rest = {} THEN Len(toks) + 1 ELSE SetMin(rest)

RECURSIVE ParseValue(_, _)
RECURSIVE ParseElems(_, _, _)

ParseValue(toks, i) ==
    LET j == SkipWs(toks, i)
    IN  IF j > Len(toks) THEN ParseFail
        ELSE IF toks[j] \in ScalarTokens
        THEN [ok |-> TRUE, val |-> [t |-> "scalar", tok |-> toks[j], elems |-> <<>>],
              next |-> j + 1]
        ELSE IF toks[j] \in ObjectTokens
        THEN [ok |-> TRUE, val |-> [t |-> "dict", tok |-> toks[j], elems |-> <<>>],
              next |-> j + 1]
        ELSE IF toks[j] = "["
        THEN LET k == SkipWs(toks, j + 1)
             IN  IF k <= Len(toks) /\ toks[k] = "]"
                 THEN [ok |-> TRUE, val |-> [t |-> "list", tok |-> None, elems |-> <<>>],
                       next |-> k + 1]
                 ELSE ParseElems(toks, j + 1, <<>>)
        ELSE ParseFail

ParseElems(toks, i, acc) ==
    LET r == ParseValue(toks, i)
    IN  IF ~r.ok THEN ParseFail
        ELSE LET k == SkipWs(toks, r.next)
             IN  IF k > Len(toks) THEN ParseFail
                 ELSE IF toks[k] = ","
                 THEN ParseElems(toks, k + 1, Append(acc, r.val))
                 ELSE IF toks[k] = "]"
                 THEN [ok |-> TRUE,
                       val |-> [t |-> "list", tok |-> None, elems |-> Append(acc, r.val)],
                       next |-> k + 1]
                 ELSE ParseFail

\* json.loads(s): one value, then only whitespace; else JSONDecodeError.
JsonLoads(toks) ==
    LET r == ParseValue(toks, 1)
    IN  IF r.ok /\ SkipWs(toks, r.next) > Len(toks)
        THEN [ok |-> TRUE, val |-> r.val]
        ELSE [ok |-> FALSE, val |-> ParseFail.val]

(***************************************************************************)
(* The schema (models/schemas.py): ContentPlan has one required field,     *)
(* items, a list of ContentPlanItem; an item is an object with all the     *)
(* required fields.                                                        *)
(***************************************************************************)
ItemValid(v) == v.t = "dict" /\ v.tok \in {"I1", "I2"}

\* ContentPlan(items=elems): the validated items in order, or ValidationError.
ContentPlanValidate(elems) ==
    IF \A i \in 1..Len(elems) : ItemValid(elems[i])
    THEN [ok |-> TRUE, items |-> [i \in 1..Len(elems) |-> elems[i].tok]]
    ELSE [ok |-> FALSE, items |-> <<>>]

(***************************************************************************)
(* generate_content_plan                                                   *)
(***************************************************************************)
Returned(items) ==
    [kind |-> "returned", items |-> items, exc |-> None, cause |-> None, raw |-> <<>>]
Raised(exc, cause, raw) ==
    [kind |-> "raised", items |-> <<>>, exc |-> exc, cause |-> cause, raw |-> raw]
Pending == [kind |-> "pending", items |-> <<>>, exc |-> None, cause |-> None, raw |-> <<>>]

\* The body without "if isinstance(parsed_data, list): parsed_data = {...}".
PlanOutcomeNoWrap(parsed, raw) ==
    IF parsed.t # "dict" THEN Raised("TypeError", None, <<>>)
    ELSE Raised("ValueError", "ValidationError", raw)

\* Lines 81-85 once json.loads has returned: a list is wrapped as
\* {"items": list}; ContentPlan(**parsed_data) needs a mapping (TypeError
\* otherwise, which the except clause does not name); a dict from the model
\* text carries no items field here; ValidationError becomes ValueError.
PlanOutcome(parsed, raw) ==
    IF parsed.t = "list"
    THEN LET v == ContentPlanValidate(parsed.elems)
         IN  IF v.ok THEN Returned(v.items)
             ELSE Raised("ValueError", "ValidationError", raw)
    ELSE IF parsed.t = "dict"
    THEN Raised("ValueError", "ValidationError", raw)
    ELSE Raised("TypeError", None, <<>>)

\* raw_response = generate_sync(final_prompt, temperature=0.3)
PlanGenerate(fails) ==
    /\ plan.pc = "call"
    /\ plan' = IF fails
               THEN [plan EXCEPT !.pc = "end",
                                 !.out = Raised("RuntimeError", "NetworkError", <<>>)]
               ELSE [plan EXCEPT !.pc = "extract", !.received = TRUE,
                                 !.raw = plan.modelOut]
    /\ UNCHANGED <<llmVars, gen, exp, pdfVars>>

\* clean_json_str = _extract_json_from_text(raw_response)
PlanExtract ==
    /\ plan.pc = "extract"
    /\ plan' = [plan EXCEPT !.pc = "parse", !.clean = ExtractJsonFromText(plan.raw)]
    /\ UNCHANGED <<llmVars, gen, exp, pdfVars>>

\* parsed_data = json.loads(clean_json_str), JSONDecodeError caught
PlanParse ==
    /\ plan.pc = "parse"
    /\ LET d == JsonLoads(plan.clean)
       IN  plan' = IF d.ok
                   THEN [plan EXCEPT !.pc = "validate", !.parsed = d.val]
                   ELSE [plan EXCEPT !.pc = "end",
                             !.out = Raised("ValueError", "JSONDecodeError", plan.raw)]
    /\ UNCHANGED <<llmVars, gen, exp, pdfVars>>

\* wrap, validate, return or raise
PlanValidate ==
    /\ plan.pc = "validate"
    /\ plan' = [plan EXCEPT !.pc = "end", !.out = PlanOutcome(plan.parsed, plan.raw)]
    /\ UNCHANGED <<llmVars, gen, exp, pdfVars>>


(***************************************************************************)
(* pdf_maker._setup_fonts and the part of generate_pdf that names fonts    *)
(***************************************************************************)
NumThreads == 2
Threads == 1..NumThreads

FontRegularName == "Roboto-Regular"
FontBoldName == "Roboto-Bold"

IdleThread == [pc |-> "idle", fontBold |-> None, exc |-> None]

\* generate_pdf(title, sections) is entered by a thread.
PdfCall(t) ==
    /\ thr[t].pc = "idle"
    /\ thr' = [thr EXCEPT ![t] = [IdleThread EXCEPT !.pc = "check"]]
    /\ UNCHANGED <<llmVars, plan, gen, exp, fontsRegistered, registry, regCount,
                   fileRegular, fileBold>>

\* if _FONTS_REGISTERED: return
SetupCheck(t) ==
    /\ thr[t].pc = "check"
    /\ thr' = [thr EXCEPT ![t].pc = IF fontsRegistered THEN "styles" ELSE "regular"]
    /\ UNCHANGED <<llmVars, plan, gen, exp, fontsRegistered, registry, regCount,
                   fileRegular, fileBold>>

\* if not os.path.exists(FONT_REGULAR): raise FileNotFoundError
\* pdfmetrics.registerFont(TTFont("Roboto-Regular", FONT_REGULAR))
SetupRegular(t) ==
    /\ thr[t].pc = "regular"
    /\ IF fileRegular
       THEN /\ registry' = registry \cup {FontRegularName}
            /\ regCount' = regCount + 1
            /\ thr' = [thr EXCEPT ![t].pc = "bold"]
       ELSE /\ thr' = [thr EXCEPT ![t].pc = "failed", ![t].exc = "FileNotFoundError"]
            /\ UNCHANGED <<registry, regCount>>
    /\ UNCHANGED <<llmVars, plan, gen, exp, fontsRegistered, fileRegular, fileBold>>

\* if os.path.exists(FONT_BOLD): registerFont(Roboto-Bold) and the mappings,
\* else the mappings onto the regular weight
SetupBold(t) ==
    /\ thr[t].pc = "bold"
    /\ registry' = IF fileBold THEN registry \cup {FontBoldName} ELSE registry
    /\ thr' = [thr EXCEPT ![t].pc = "flag"]
    /\ UNCHANGED <<llmVars, plan, gen, exp, fontsRegistered, regCount, fileRegular, fileBold>>

\* _FONTS_REGISTERED = True
SetupFlag(t) ==
    /\ thr[t].pc = "flag"
    /\ fontsRegistered' = TRUE
    /\ thr' = [thr EXCEPT ![t].pc = "styles"]
    /\ UNCHANGED <<llmVars, plan, gen, exp, registry, regCount, fileRegular, fileBold>>

\* font_bold = "Roboto-Bold" if os.path.exists(FONT_BOLD) else font_reg
PdfStyles(t) ==
    /\ thr[t].pc = "styles"
    /\ thr' = [thr EXCEPT ![t].pc = "build",
                          ![t].fontBold = IF fileBold THEN FontBoldName
                                          ELSE FontRegularName]
    /\ UNCHANGED <<llmVars, plan, gen, exp, fontsRegistered, registry, regCount,
                   fileRegular, fileBold>>

\* The paragraphs are laid out with the styles' fonts; an unregistered font
\* name makes the layout fail.
PdfBuild(t) ==
    /\ thr[t].pc = "build"
    /\ thr' = IF {thr[t].fontBold, FontRegularName} \subseteq registry
              THEN [thr EXCEPT ![t].pc = "done"]
              ELSE [thr EXCEPT ![t].pc = "failed", ![t].exc = "FontError"]
    /\ UNCHANGED <<llmVars, plan, gen, exp, fontsRegistered, registry, regCount,
                   fileRegular, fileBold>>

\* The call is over; the thread may serve another request.
PdfReturn(t) ==
    /\ thr[t].pc \in {"done", "failed"}
    /\ thr' = [thr EXCEPT ![t] = IdleThread]
    /\ UNCHANGED <<llmVars, plan, gen, exp, fontsRegistered, registry, regCount,
                   fileRegular, fileBold>>

\* The font files of assets/fonts are installed or removed.
FontFilesChange(r, b) ==
    /\ <<r, b>> # <<fileRegular, fileBold>>
    /\ fileRegular' = r
    /\ fileBold' = b
    /\ UNCHANGED <<llmVars, plan, gen, exp, fontsRegistered, registry, regCount, thr>>

(***************************************************************************)
(* Inputs of generate_content_plan: the model's raw output.                *)
(***************************************************************************)
MaxLen == 4
MaxItems == 3

TextAlphabet == {"[", "]", ",", "\n", "p", "5", "I1"}
ElemTokens == {"I1", "I2", "Bad", "5", "obj"}
ProseBefore == {<<>>, <<"p", "\n">>, <<"]", "p">>, <<"p", "[", "p", "]">>}
ProseAfter == {<<>>, <<"\n", "p">>, <<"p", "[">>, <<"\n", "[", "p", "]">>}

RECURSIVE CommaSep(_)
CommaSep(elems) ==
    IF elems = <<>> THEN <<>>
    ELSE IF Len(elems) = 1 THEN elems
    ELSE <<Head(elems), ",">> \o CommaSep(Tail(elems))

ArrayText(elems) == <<"[">> \o CommaSep(elems) \o <<"]">>

PlanIdle ==
    [pc |-> "idle", modelOut |-> <<>>, shaped |-> FALSE, pre |-> <<>>, arr |-> <<>>,
     post |-> <<>>, received |-> FALSE, raw |-> <<>>, clean |-> <<>>,
     parsed |-> ParseFail.val, out |-> Pending]

\* Any short text, any single token, or an array of elements inside prose.
PlanInput(p) ==
    \/ \E k \in 0..MaxLen : \E text \in [1..k -> TextAlphabet] :
          p = [PlanIdle EXCEPT !.pc = "call", !.modelOut = text]
    \/ \E t \in Alphabet :
          p = [PlanIdle EXCEPT !.pc = "call", !.modelOut = <<t>>]
    \/ \E pre \in ProseBefore, post \in ProseAfter :
          \E k \in 0..MaxItems : \E arr \in [1..k -> ElemTokens] :
              p = [PlanIdle EXCEPT !.pc = "call", !.shaped = TRUE, !.pre = pre,
                                   !.arr = arr, !.post = post,
                                   !.modelOut = pre \o ArrayText(arr) \o post]

(***************************************************************************)
(* content_gen: the three streaming generators                             *)
(***************************************************************************)
Kinds == {"broadcast", "lead_magnet", "seo_article"}

\* load_prompt("broadcasts") / load_prompt("lead_magnets") / load_prompt("seo_articles")
KindTemplate(kind) ==
    CASE kind = "broadcast" -> "broadcasts"
      [] kind = "lead_magnet" -> "lead_magnets"
      [] kind = "seo_article" -> "seo_articles"

\* The SEO article generated at the temperature of the other two.
KindTemperatureFlat(kind) == "0.7"

\* generate_stream(final_prompt, temperature=0.7 / 0.7 / 0.8)
KindTemperature(kind) ==
    CASE kind = "broadcast" -> "0.7"
      [] kind = "lead_magnet" -> "0.7"
      [] kind = "seo_article" -> "0.8"

NotGenerated == [called |-> FALSE, template |-> None, temp |-> None, exc |-> None]
GenIdle == [last |-> None, by |-> [k \in Kinds |-> NotGenerated]]

\* generate_broadcast_stream / generate_lead_magnet_stream /
\* generate_seo_article_stream: the template is loaded (FileNotFoundError when
\* the file is missing) and filled in, and the generator of
\* generate_stream(final_prompt, temperature) is returned.
GenerateKindStream(kind, missing) ==
    /\ callsMade < MaxCalls
    /\ cur.pc = "none" \/ Terminal(cur)
    /\ IF missing
       THEN /\ gen' = [last |-> kind,
                       by |-> [gen.by EXCEPT ![kind] =
                                 [called |-> TRUE, template |-> KindTemplate(kind),
                                  temp |-> None, exc |-> "FileNotFoundError"]]]
            /\ UNCHANGED <<cur, callsMade, prevModel>>
       ELSE /\ gen' = [last |-> kind,
                       by |-> [gen.by EXCEPT ![kind] =
                                 [called |-> TRUE, template |-> KindTemplate(kind),
                                  temp |-> KindTemperature(kind), exc |-> None]]]
            /\ cur' = NewCallRecord("stream", KindTemperature(kind))
            /\ callsMade' = callsMade + 1
            /\ prevModel' = IF cur.pc = "none" THEN prevModel ELSE cur.req.model
    /\ UNCHANGED <<session, secrets, env, plan, exp, pdfVars>>

(***************************************************************************)
(* pdf_maker._md_to_html_tags                                              *)
(***************************************************************************)
MaxMdLen == 7
MaxSegs == 2

ExpIdle ==
    [pc |-> "idle", text |-> <<>>, shaped |-> FALSE, segs |-> <<>>,
     mid |-> <<>>, out |-> <<>>,
     title |-> <<>>, sections |-> <<>>, sec |-> 0, lines |-> <<>>,
     story |-> <<>>, exc |-> None]

\* '.' matches every character but the newline.
NoNewline(text, from, to) == \A k \in from..to : text[k] # "\n"

RECURSIVE SubBold(_, _)
RECURSIVE SubItalic(_, _)

\* re.sub(r'\*\*(.*?)\*\*', r'<b>\1</b>', text) from position i on: at a '**'
\* the lazy group runs to the nearest following '**'; the scan goes on after
\* the match, or after one character when there is no match here.
SubBold(text, i) ==
    IF i > Len(text) THEN <<>>
    ELSE LET closes == {j \in (i + 2)..(Len(text) - 1) :
                            /\ text[j] = "*" /\ text[j + 1] = "*"
                            /\ NoNewline(text, i + 2, j - 1)}
         IN  IF i < Len(text) /\ text[i] = "*" /\ text[i + 1] = "*" /\ closes # {}
             THEN LET j == SetMin(closes)
                  IN  <<"<b>">> \o SubSeq(text, i + 2, j - 1) \o <<"</b>">>
                          \o SubBold(text, j + 2)
             ELSE <<text[i]>> \o SubBold(text, i + 1)

\* re.sub(r'\*(.*?)\*', r'<i>\1</i>', text) from position i on.
SubItalic(text, i) ==
    IF i > Len(text) THEN <<>>
    ELSE LET closes == {j \in (i + 1)..Len(text) :
                            text[j] = "*" /\ NoNewline(text, i + 1, j - 1)}
         IN  IF text[i] = "*" /\ closes # {}
             THEN LET j == SetMin(closes)
                  IN  <<"<i>">> \o SubSeq(text, i + 1, j - 1) \o <<"</i>">>
                          \o SubItalic(text, j + 1)
             ELSE <<text[i]>> \o SubItalic(text, i + 1)

\* _md_to_html_tags: the bold rule, then the italic rule on its result.
MdToHtmlTags(text) == SubItalic(SubBold(text, 1), 1)

\* The Markdown spans the inputs are put together from.
SegKinds == {"plain", "bold", "italic", "bolditalic", "italic_in_bold", "bold_in_italic"}

SegText(kind) ==
    CASE kind = "plain" -> <<"x">>
      [] kind = "bold" -> <<"*", "*", "x", "*", "*">>
      [] kind = "italic" -> <<"*", "x", "*">>
      [] kind = "bolditalic" -> <<"*", "*", "*", "x", "*", "*", "*">>
      [] kind = "italic_in_bold" ->
             <<"*", "*", "x", " ", "*", "x", "*", " ", "x", "*", "*">>
      [] kind = "bold_in_italic" ->
             <<"*", "x", " ", "*", "*", "x", "*", "*", " ", "x", "*">>

RECURSIVE SegsText(_)
SegsText(segs) ==
    IF segs = <<>> THEN <<>>
    ELSE IF Len(segs) = 1 THEN SegText(segs[1])
    ELSE SegText(segs[1]) \o <<" ">> \o SegsText(Tail(segs))

\* A text handed to _md_to_html_tags: any short run of asterisks and letters,
\* or spans separated by blanks.
MdInput(x) ==
    \/ \E k \in 0..MaxMdLen : \E text \in [1..k -> {"*", "x"}] :
          x = [ExpIdle EXCEPT !.pc = "bold", !.text = text]
    \/ \E k \in 1..MaxSegs : \E segs \in [1..k -> SegKinds] :
          x = [ExpIdle EXCEPT !.pc = "bold", !.shaped = TRUE, !.segs = segs,
                              !.text = SegsText(segs)]

\* text = re.sub(bold pattern, ..., text)
MdBold ==
    /\ exp.pc = "bold"
    /\ exp' = [exp EXCEPT !.pc = "italic", !.mid = SubBold(exp.text, 1)]
    /\ UNCHANGED <<llmVars, plan, gen, pdfVars>>

\* text = re.sub(italic pattern, ..., text); return text
MdItalic ==
    /\ exp.pc = "italic"
    /\ exp' = [exp EXCEPT !.pc = "done", !.out = MdToHtmlTags(exp.text)]
    /\ UNCHANGED <<llmVars, plan, gen, pdfVars>>

(***************************************************************************)
(* longread_tab.create_html_export                                         *)
(***************************************************************************)
MaxHtmlLen == 3

\* The backtick character.
Backtick == "backtick"

\* The characters of the Markdown text that matter to the script literal; the
\* closing script tag is one symbol.
HtmlAlphabet == {Backtick, "$", "\\", "{", "n", "a", "</script>"}

RECURSIVE Replace(_, _, _)
\* str.replace(old, new) for a one-character old.
Replace(text, old, new) ==
    IF text = <<>> THEN <<>>
    ELSE (IF Head(text) = old THEN new ELSE <<Head(text)>>)
             \o Replace(Tail(text), old, new)

\* safe_md: every backtick, then every dollar sign, gets a backslash before it.
SafeMd(text) == Replace(Replace(text, Backtick, <<"\\", Backtick>>), "$", <<"\\", "$">>)

\* The script element of the page: the statement that assigns the literal
\* holding safe_md, and the closing tag.
ScriptElement(safe) == <<Backtick>> \o safe \o <<Backtick, ";", "</script>">>

HtmlInput(x) ==
    \E k \in 0..MaxHtmlLen : \E text \in [1..k -> HtmlAlphabet] :
        x = [ExpIdle EXCEPT !.pc = "escape", !.text = text]

HtmlEscape ==
    /\ exp.pc = "escape"
    /\ exp' = [exp EXCEPT !.pc = "embed", !.mid = SafeMd(exp.text)]
    /\ UNCHANGED <<llmVars, plan, gen, pdfVars>>

HtmlEmbed ==
    /\ exp.pc = "embed"
    /\ exp' = [exp EXCEPT !.pc = "embedded", !.out = ScriptElement(exp.mid)]
    /\ UNCHANGED <<llmVars, plan, gen, pdfVars>>

(***************************************************************************)
(* pdf_maker.generate_pdf: the document flow (story)                       *)
(***************************************************************************)
MaxSections == 2

\* The markup of a Paragraph is well formed for the library's parser when
\* every closing tag closes the tag opened last.
RECURSIVE Nested(_, _)
\* Every closing tag closes the tag opened last, with the open tags in stack.
Nested(text, stack) ==
    IF text = <<>> THEN stack = <<>>
    ELSE LET c == Head(text)
         IN  IF c \in {"<b>", "<i>"} THEN Nested(Tail(text), <<c>> \o stack)
             ELSE IF c = "</b>"
             THEN stack # <<>> /\ Head(stack) = "<b>" /\ Nested(Tail(text), Tail(stack))
             ELSE IF c = "</i>"
             THEN stack # <<>> /\ Head(stack) = "<i>" /\ Nested(Tail(text), Tail(stack))
             ELSE Nested(Tail(text), stack)

RECURSIVE Split(_)
\* section.split('\n'): the lines of a text, at least one.
Split(text) ==
    LET breaks == {i \in 1..Len(text) : text[i] = "\n"}
    IN  IF breaks = {} THEN <<text>>
        ELSE LET i == SetMin(breaks)
             IN  <<SubSeq(text, 1, i - 1)>> \o Split(SubSeq(text, i + 1, Len(text)))

RECURSIVE LStrip(_, _)
\* str.lstrip(): without chars, blanks are dropped.
LStrip(text, chars) ==
    IF text # <<>> /\ Head(text) \in chars THEN LStrip(Tail(text), chars) ELSE text

RECURSIVE RStrip(_)
RStrip(text) ==
    IF text # <<>> /\ text[Len(text)] = " " THEN RStrip(SubSeq(text, 1, Len(text) - 1))
    ELSE text

\* str.strip()
Strip(text) == RStrip(LStrip(text, {" "}))

\* str.startswith(prefix)
StartsWith(text, prefix) ==
    Len(text) >= Len(prefix) /\ SubSeq(text, 1, Len(prefix)) = prefix

Para(style, text) == [kind |-> "para", style |-> style, text |-> text]
Spacer == [kind |-> "spacer", style |-> None, text |-> <<>>]

\* The paragraph of a line, the line classified as it stands, blanks included.
LineParagraphUntrimmed(para) ==
    IF StartsWith(para, <<"#", "#">>)
    THEN Para("h2", MdToHtmlTags(Strip(LStrip(para, {"#"}))))
    ELSE IF StartsWith(para, <<"#">>)
    THEN Para("title", MdToHtmlTags(Strip(LStrip(para, {"#"}))))
    ELSE Para("body", MdToHtmlTags(Strip(para)))

\* The paragraph appended for a line of a section (the line is not empty
\* after para.strip()).
LineParagraph(para) ==
    LET stripped == Strip(para)
    IN  IF StartsWith(stripped, <<"#", "#">>)
        THEN Para("h2", MdToHtmlTags(Strip(LStrip(stripped, {"#"}))))
        ELSE IF StartsWith(stripped, <<"#">>)
        THEN Para("title", MdToHtmlTags(Strip(LStrip(stripped, {"#"}))))
        ELSE Para("body", MdToHtmlTags(stripped))

\* clean_title = _md_to_html_tags(title).replace("#", "").strip()
CleanTitle(title) == Strip(Replace(MdToHtmlTags(title), "#", <<>>))

Titles ==
    {<<"x">>, <<"#", " ", "x">>, <<"*", "*", "*", "x", "*", "*", "*">>}

SectionTexts ==
    {<<>>,
     <<"x">>,
     <<"#", "#", " ", "x", "\n", "x">>,
     <<"#", " ", "x", "\n", "\n", " ", "x", " ">>,
     <<" ", "#", "#", " ", "x", " ", "\n", "#", "#", "#", "x">>,
     <<"#", "\n", "#", "#", " ", "#", "x">>,
     <<"*", "*", "*", "x", "*", "*", "*", "\n", "*", "*", "x", "*", "*">>,
     <<"x", "\n", " ", "\n", " ", "#", " ", "x">>}

FlowInput(x) ==
    \E title \in Titles : \E k \in 0..MaxSections : \E sections \in [1..k -> SectionTexts] :
        x = [ExpIdle EXCEPT !.pc = "title", !.title = title, !.sections = sections]

\* story = []; story.append(Paragraph(clean_title, title_style)). For a
\* markup that is not well formed the library's parser may reject the text,
\* and the call fails.
FlowTitle ==
    /\ exp.pc = "title"
    /\ \/ exp' = [exp EXCEPT !.pc = "section", !.sec = 1,
                             !.story = <<Para("title", CleanTitle(exp.title))>>]
       \/ /\ ~Nested(CleanTitle(exp.title), <<>>)
          /\ exp' = [exp EXCEPT !.pc = "failed", !.exc = "ValueError"]
    /\ UNCHANGED <<llmVars, plan, gen, pdfVars>>

\* for section in sections: paragraphs = section.split('\n')
FlowSection ==
    /\ exp.pc = "section"
    /\ exp.sec <= Len(exp.sections)
    /\ exp' = [exp EXCEPT !.pc = "line", !.lines = Split(exp.sections[exp.sec])]
    /\ UNCHANGED <<llmVars, plan, gen, pdfVars>>

\* for para in paragraphs: para = para.strip(); if not para: continue;
\* story.append(Paragraph(...))
FlowLine ==
    /\ exp.pc = "line"
    /\ exp.lines # <<>>
    /\ IF Strip(Head(exp.lines)) = <<>>
       THEN exp' = [exp EXCEPT !.lines = Tail(@)]
       ELSE \/ exp' = [exp EXCEPT !.lines = Tail(@),
                                  !.story = Append(@, LineParagraph(Head(exp.lines)))]
            \/ /\ ~Nested(LineParagraph(Head(exp.lines)).text, <<>>)
               /\ exp' = [exp EXCEPT !.pc = "failed", !.exc = "ValueError"]
    /\ UNCHANGED <<llmVars, plan, gen, pdfVars>>

\* story.append(Spacer(1, 15)) after the lines of the section
FlowSpacer ==
    /\ exp.pc = "line"
    /\ exp.lines = <<>>
    /\ exp' = [exp EXCEPT !.pc = "section", !.sec = @ + 1, !.story = Append(@, Spacer)]
    /\ UNCHANGED <<llmVars, plan, gen, pdfVars>>

\* doc.build(story) once the sections are exhausted
FlowBuild ==
    /\ exp.pc = "section"
    /\ exp.sec > Len(exp.sections)
    /\ exp' = [exp EXCEPT !.pc = "built"]
    /\ UNCHANGED <<llmVars, plan, gen, pdfVars>>

(***************************************************************************)
(* Specifications, one for each part of the program.                      *)
(***************************************************************************)
PdfIdle ==
    /\ fontsRegistered = FALSE
    /\ registry = {}
    /\ regCount = 0
    /\ thr = [t \in Threads |-> IdleThread]

LlmIdle ==
    /\ session = [llm_model |-> None, llm_temperature |-> None]
    /\ secrets = [credentials |-> None, model |-> None]
    /\ env = [credentials |-> None, model |-> None]
    /\ cur = NoCall
    /\ callsMade = 0
    /\ prevModel = None

\* The model client under every transport behaviour and every way the
\* credentials may be present; the settings stay as they are.
Init ==
    /\ session \in [llm_model : SessionModels, llm_temperature : SessionTemps]
    /\ secrets \in [credentials : SecretCredentials, model : {None}]
    /\ env \in [credentials : EnvCredentials, model : {None}]
    /\ cur = NoCall
    /\ callsMade = 0
    /\ prevModel = None
    /\ plan = PlanIdle
    /\ PdfIdle
    /\ gen = GenIdle
    /\ exp = ExpIdle
    /\ fileRegular = TRUE
    /\ fileBold = TRUE

Next ==
    \/ \E t \in ArgTemps : CallStream(t)
    \/ \E t \in ArgTemps, f \in BOOLEAN : CallSync(t, f)
    \/ \E f \in BOOLEAN : StartStream(f)
    \/ \E r \in BOOLEAN : OpenRequest(r)
    \/ \E ch \in Chunks : ReadChunk(ch)
    \/ EndOfStream
    \/ ReadFails
    \/ CloseStream

Spec == Init /\ [][Next]_vars

\* The model client under every configuration of the model layers and every
\* change of the session settings; the transport delivers content deltas.
ContentChunks == {ch \in Chunks : ch.content = <<"a">>}

InitConfig ==
    /\ session \in [llm_model : SessionModels, llm_temperature : SessionTemps]
    /\ secrets \in [credentials : {"secret-key"}, model : SecretModels]
    /\ env \in [credentials : {None}, model : EnvModels]
    /\ cur = NoCall
    /\ callsMade = 0
    /\ prevModel = None
    /\ plan = PlanIdle
    /\ PdfIdle
    /\ gen = GenIdle
    /\ exp = ExpIdle
    /\ fileRegular = TRUE
    /\ fileBold = TRUE

NextConfig ==
    \/ \E t \in ArgTemps : CallStream(t)
    \/ \E t \in ArgTemps, f \in BOOLEAN : CallSync(t, f)
    \/ \E f \in BOOLEAN : StartStream(f)
    \/ \E r \in BOOLEAN : OpenRequest(r)
    \/ \E ch \in ContentChunks : ReadChunk(ch)
    \/ EndOfStream
    \/ ReadFails
    \/ CloseStream
    \/ \E m \in SessionModels, t \in SessionTemps : SetSession(m, t)

SpecConfig == InitConfig /\ [][NextConfig]_vars

InitPlan ==
    /\ LlmIdle
    /\ PdfIdle
    /\ gen = GenIdle
    /\ exp = ExpIdle
    /\ fileRegular = TRUE
    /\ fileBold = TRUE
    /\ PlanInput(plan)

NextPlan ==
    \/ \E f \in BOOLEAN : PlanGenerate(f)
    \/ PlanExtract
    \/ PlanParse
    \/ PlanValidate

SpecPlan == InitPlan /\ [][NextPlan]_vars

InitPdf ==
    /\ LlmIdle
    /\ plan = PlanIdle
    /\ PdfIdle
    /\ gen = GenIdle
    /\ exp = ExpIdle
    /\ fileRegular \in BOOLEAN
    /\ fileBold \in BOOLEAN

NextPdf ==
    \/ \E t \in Threads :
          \/ PdfCall(t)
          \/ SetupCheck(t)
          \/ SetupRegular(t)
          \/ SetupBold(t)
          \/ SetupFlag(t)
          \/ PdfStyles(t)
          \/ PdfBuild(t)
          \/ PdfReturn(t)
    \/ \E r \in BOOLEAN, b \in BOOLEAN : FontFilesChange(r, b)

SpecPdf == InitPdf /\ [][NextPdf]_vars

\* generate_pdf calls one after another: a call is entered when no other is
\* running, and the font files change between calls only.
NoCallRunning == \A u \in Threads : thr[u].pc = "idle"

NextPdfSeq ==
    \/ \E t \in Threads :
          \/ NoCallRunning /\ PdfCall(t)
          \/ SetupCheck(t)
          \/ SetupRegular(t)
          \/ SetupBold(t)
          \/ SetupFlag(t)
          \/ PdfStyles(t)
          \/ PdfBuild(t)
          \/ PdfReturn(t)
    \/ NoCallRunning /\ \E r \in BOOLEAN, b \in BOOLEAN : FontFilesChange(r, b)

SpecPdfSeq == InitPdf /\ [][NextPdfSeq]_vars


\* The content service's streaming generators over the model client.
InitContent ==
    /\ session \in [llm_model : SessionModels, llm_temperature : SessionTemps]
    /\ secrets = [credentials |-> "secret-key", model |-> None]
    /\ env = [credentials |-> None, model |-> None]
    /\ cur = NoCall
    /\ callsMade = 0
    /\ prevModel = None
    /\ plan = PlanIdle
    /\ PdfIdle
    /\ gen = GenIdle
    /\ exp = ExpIdle
    /\ fileRegular = TRUE
    /\ fileBold = TRUE

NextContent ==
    \/ \E k \in Kinds, missing \in BOOLEAN : GenerateKindStream(k, missing)
    \/ \E f \in BOOLEAN : StartStream(f)
    \/ \E r \in BOOLEAN : OpenRequest(r)
    \/ \E ch \in ContentChunks : ReadChunk(ch)
    \/ EndOfStream
    \/ ReadFails
    \/ CloseStream

SpecContent == InitContent /\ [][NextContent]_vars

\* _md_to_html_tags on its inputs.
InitMd ==
    /\ LlmIdle
    /\ plan = PlanIdle
    /\ PdfIdle
    /\ gen = GenIdle
    /\ fileRegular = TRUE
    /\ fileBold = TRUE
    /\ MdInput(exp)

NextMd == MdBold \/ MdItalic

SpecMd == InitMd /\ [][NextMd]_vars

\* create_html_export on its inputs.
InitHtml ==
    /\ LlmIdle
    /\ plan = PlanIdle
    /\ PdfIdle
    /\ gen = GenIdle
    /\ fileRegular = TRUE
    /\ fileBold = TRUE
    /\ HtmlInput(exp)

NextHtml == HtmlEscape \/ HtmlEmbed

SpecHtml == InitHtml /\ [][NextHtml]_vars

\* generate_pdf building the document flow of its inputs.
InitFlow ==
    /\ LlmIdle
    /\ plan = PlanIdle
    /\ PdfIdle
    /\ gen = GenIdle
    /\ fileRegular = TRUE
    /\ fileBold = TRUE
    /\ FlowInput(exp)

NextFlow ==
    \/ FlowTitle
    \/ FlowSection
    \/ FlowLine
    \/ FlowSpacer
    \/ FlowBuild

SpecFlow == InitFlow /\ [][NextFlow]_vars

(***************************************************************************)
(* The properties.                                                         *)
(***************************************************************************)
AllItems(elems) == \A i \in 1..Len(elems) : elems[i] \in {"I1", "I2"}

\* The output is not a JSON array of valid content-plan items: what is taken
\* from it does not decode, decodes to something that is no array, or is an
\* array with an invalid element.
NotItemArray(text) ==
    LET d == JsonLoads(ExtractJsonFromText(text))
    IN  \/ ~d.ok
        \/ d.val.t # "list"
        \/ \E i \in 1..Len(d.val.elems) : ~ItemValid(d.val.elems[i])

\* C1: for every raw model output that is not a JSON array of valid
\* content-plan items, generate_content_plan ends by raising the one format
\* error (ValueError) that carries the raw model text and the underlying
\* cause; no other error kind escapes and no list is returned.
C1_FormatErrorOnly ==
    (plan.pc = "end" /\ plan.received /\ NotItemArray(plan.modelOut))
        => /\ plan.out.kind = "raised"
           /\ plan.out.exc = "ValueError"
           /\ plan.out.cause \in {"JSONDecodeError", "ValidationError"}
           /\ plan.out.raw = plan.modelOut

\* C2: every failure of a generate_stream call, whatever the stage (building
\* the client, opening the request, reading a later fragment), reaches the
\* caller as the one transport error (RuntimeError) whose cause is the
\* original exception.
C2_TransportErrorOnly ==
    cur.pc = "failed"
        => /\ cur.fault # None
           /\ cur.err = [kind |-> "RuntimeError", cause |-> cur.fault]

\* A read fails after a fragment was delivered, and the caller sees the
\* transport error wrapping it.
C2_Witness ==
    /\ cur.pc = "failed"
    /\ cur.kind = "stream"
    /\ Len(cur.yielded) >= 1
    /\ cur.fault = "NetworkError"
    /\ cur.err.kind = "RuntimeError"

\* C3: when no usable credential resolves, the model call fails with the
\* credentials-missing error (ValueError), a kind distinct from the transport
\* error, and no request is issued in that call.
C3_CredentialsMissingError ==
    (cur.pc = "failed" /\ ~TruthyStr(ResolveCredentials(secrets, env)))
        => /\ cur.err.kind = "ValueError"
           /\ cur.err.kind # "RuntimeError"
           /\ cur.requests = 0

\* C4: a call issues at most one chat request over its whole life, and once
\* its fragment sequence has ended (completion, error or close) the call does
\* nothing more: no further request, no further fragment, no restart; only a
\* new call starts a new generation.
C4_SingleRequest ==
    /\ [](cur.requests <= 1)
    /\ [][(Terminal(cur) /\ callsMade' = callsMade) => cur' = cur]_vars

\* A call that failed after its one request and after delivering a fragment.
C4_Witness ==
    /\ cur.pc = "failed"
    /\ cur.requests = 1
    /\ Len(cur.yielded) >= 1
    /\ callsMade = MaxCalls

RECURSIVE WireText(_)
\* The text the transport delivered: the content of the chunks, in arrival order.
WireText(w) ==
    IF w = <<>> THEN <<>>
    ELSE LET last == w[Len(w)]
         IN  WireText(SubSeq(w, 1, Len(w) - 1))
                 \o (IF last.choices THEN last.content ELSE <<>>)

\* C5: generate_sync returns exactly the concatenation, in arrival order, of
\* the fragments the stream yields, and it fails (with the stream's error,
\* returning no text) exactly when the stream fails.
C5_SyncIsDrainedStream ==
    cur.kind = "sync"
        => /\ cur.pc = "done" => /\ cur.result.ok
                                 /\ cur.result.text = WireText(cur.wire)
                                 /\ cur.fault = None
           /\ cur.pc = "failed" => /\ cur.result = NoResult
                                   /\ cur.fault # None
                                   /\ cur.err.cause = cur.fault
           /\ cur.result.ok => cur.pc = "done"
           /\ Terminal(cur) => cur.pc \in {"done", "failed"}

\* A synchronous call that returned the text of two different fragments with
\* an empty delta among the chunks.
C5_Witness ==
    /\ cur.kind = "sync"
    /\ cur.pc = "done"
    /\ Len(cur.wire) = 3
    /\ Len(cur.yielded) = 2
    /\ cur.yielded[1] # cur.yielded[2]
    /\ cur.result.text = cur.yielded[1] \o cur.yielded[2]

HasPair(text) ==
    \E i, j \in 1..Len(text) : i < j /\ text[i] = "[" /\ text[j] = "]"
FirstOpen(text) == SetMin({i \in 1..Len(text) : text[i] = "["})
LastClose(text) == SetMax({j \in 1..Len(text) : text[j] = "]"})

\* C6: _extract_json_from_text returns, when the text has a '[' with a ']'
\* somewhere after it, exactly the substring from the first '[' to the last
\* ']' (newlines inside allowed), and the text unchanged otherwise.
C6_ExtractFirstToLast ==
    (plan.received /\ plan.pc # "extract")
        => plan.clean = IF HasPair(plan.raw)
                        THEN SubSeq(plan.raw, FirstOpen(plan.raw), LastClose(plan.raw))
                        ELSE plan.raw

\* An extraction that cut prose off, spans a newline and passes an inner ']'.
C6_Witness ==
    /\ plan.received /\ plan.pc # "extract"
    /\ Len(plan.clean) < Len(plan.raw)
    /\ \E i \in 1..Len(plan.clean) : plan.clean[i] = "\n"
    /\ \E i \in 2..(Len(plan.clean) - 1) : plan.clean[i] = "]"

ChainModel(sess, sec, en) ==
    IF sess.llm_model # None THEN sess.llm_model
    ELSE IF sec.model # None THEN sec.model
    ELSE IF en.model # None THEN en.model
    ELSE DefaultModel

\* C8: the model identifier in the chat request is the value of the
\* highest-priority layer that has one.
C8_RequestModelChain ==
    cur.req # NoReq => cur.req.model = ChainModel(cur.sessAtStart, secrets, env)

\* C9 as stated: the request's temperature and model are those of the
\* settings as they stood when the call was made.
C9_ConfigAtCall ==
    cur.req # NoReq
        => /\ cur.req.model = Get(cur.sessAtCall.llm_model, DefaultModel)
           /\ cur.req.temp = IF TruthyNum(cur.argTemp) THEN cur.argTemp
                             ELSE Get(cur.sessAtCall.llm_temperature, DefaultTemperature)

\* C9 amended: the request's temperature and model are those of the settings
\* as they stood when the body of the call started to run (the first fragment
\* was asked for); nothing of an earlier call is kept, and a later change of
\* the settings leaves the request as it is.
C9_ConfigAtStart ==
    cur.req # NoReq
        => /\ cur.req.model = Get(cur.sessAtStart.llm_model, DefaultModel)
           /\ cur.req.temp = IF TruthyNum(cur.argTemp) THEN cur.argTemp
                             ELSE Get(cur.sessAtStart.llm_temperature, DefaultTemperature)

\* A second call whose request differs from the first call's after a change
\* of settings between them, and which a change made afterwards left alone.
C9_Witness ==
    /\ callsMade = 2
    /\ cur.req # NoReq
    /\ prevModel # None
    /\ cur.req.model # prevModel
    /\ session # cur.sessAtStart
    /\ cur.req.model # Get(session.llm_model, DefaultModel)

\* C10: the font registration is performed at most once per process, under
\* any interleaving of generate_pdf calls.
C10_RegisterOnce == regCount <= 1

\* A temperature as a number of tenths.
Tenths(t) ==
    CASE t = "0" -> 0 [] t = "0.3" -> 3 [] t = "0.5" -> 5
      [] t = "0.7" -> 7 [] t = "0.8" -> 8

Generated(k) == gen.by[k].called /\ gen.by[k].exc = None

\* C11 as stated: the three streaming generators use pairwise different
\* prompt templates and pairwise different temperatures.
C11_DistinctTemplatesAndTemperatures ==
    \A k1, k2 \in Kinds :
        (k1 # k2 /\ Generated(k1) /\ Generated(k2))
            => /\ gen.by[k1].template # gen.by[k2].template
               /\ gen.by[k1].temp # gen.by[k2].temp

\* C11 amended: the templates are pairwise different; the SEO article's
\* temperature is higher than that of the broadcast post and of the lead
\* magnet, which share one temperature; and the request of the generator
\* carries the temperature of its kind.
C11_DistinctTemplatesSeoHigher ==
    /\ \A k1, k2 \in Kinds :
           (k1 # k2 /\ gen.by[k1].called /\ gen.by[k2].called)
               => gen.by[k1].template # gen.by[k2].template
    /\ \A k \in Kinds \ {"seo_article"} :
           (Generated(k) /\ Generated("seo_article"))
               => Tenths(gen.by["seo_article"].temp) > Tenths(gen.by[k].temp)
    /\ (Generated("broadcast") /\ Generated("lead_magnet"))
           => gen.by["broadcast"].temp = gen.by["lead_magnet"].temp
    /\ (gen.last # None /\ Generated(gen.last) /\ cur.req # NoReq)
           => cur.req.temp = gen.by[gen.last].temp

\* A broadcast post was generated, then an SEO article whose request carries
\* the higher temperature.
C11_Witness ==
    /\ Generated("broadcast")
    /\ gen.last = "seo_article" /\ Generated("seo_article")
    /\ cur.req # NoReq
    /\ cur.req.temp = "0.8"
    /\ gen.by["broadcast"].temp = "0.7"

NoAsterisk(text) == \A i \in 1..Len(text) : text[i] # "*"

\* What the spans are to become.
SegHtml(kind) ==
    CASE kind = "plain" -> <<"x">>
      [] kind = "bold" -> <<"<b>", "x", "</b>">>
      [] kind = "italic" -> <<"<i>", "x", "</i>">>
      [] kind = "bolditalic" -> <<"<b>", "<i>", "x", "</i>", "</b>">>
      [] kind = "italic_in_bold" ->
             <<"<b>", "x", " ", "<i>", "x", "</i>", " ", "x", "</b>">>
      [] kind = "bold_in_italic" ->
             <<"<i>", "x", " ", "<b>", "x", "</b>", " ", "x", "</i>">>

RECURSIVE SegsHtml(_)
SegsHtml(segs) ==
    IF segs = <<>> THEN <<>>
    ELSE IF Len(segs) = 1 THEN SegHtml(segs[1])
    ELSE SegHtml(segs[1]) \o <<" ">> \o SegsHtml(Tail(segs))

\* C12: with the bold rule applied before the italic rule, every '**x**'
\* span becomes '<b>x</b>' and every remaining '*y*' span '<i>y</i>'; for
\* nested or overlapping markers the result has no leftover asterisk and
\* properly nested tags.
C12_BoldBeforeItalic ==
    (exp.pc = "done" /\ exp.shaped)
        => /\ NoAsterisk(exp.out)
           /\ Nested(exp.out, <<>>)
           /\ (\A i \in 1..Len(exp.segs) : exp.segs[i] \in {"plain", "bold", "italic"})
                  => exp.out = SegsHtml(exp.segs)

\* The text of the script element as the page parser delimits it: up to the
\* first closing script tag.
ScriptBody(page) ==
    LET ends == {i \in 1..Len(page) : page[i] = "</script>"}
    IN  SubSeq(page, 1, SetMin(ends) - 1)

RECURSIVE TemplateValue(_, _, _)
\* The value of the template literal whose opening backtick precedes position
\* i of the script text: ok when the literal is closed by the backtick that
\* the statement's semicolon follows, with no substitution on the way.
TemplateValue(body, i, acc) ==
    IF i > Len(body) THEN [ok |-> FALSE, text |-> acc]
    ELSE LET c == body[i]
         IN  CASE c = Backtick ->
                      [ok |-> (i = Len(body) - 1 /\ body[Len(body)] = ";"), text |-> acc]
               [] c = "$" ->
                      IF i < Len(body) /\ body[i + 1] = "{"
                      THEN [ok |-> FALSE, text |-> acc]
                      ELSE TemplateValue(body, i + 1, acc \o <<"$">>)
               [] c = "\\" ->
                      IF i = Len(body) THEN [ok |-> FALSE, text |-> acc]
                      ELSE IF body[i + 1] = "n"
                      THEN TemplateValue(body, i + 2, acc \o <<"\n">>)
                      ELSE TemplateValue(body, i + 2, acc \o <<body[i + 1]>>)
               [] OTHER -> TemplateValue(body, i + 1, acc \o <<c>>)

\* C13: the script literal that create_html_export writes evaluates back to
\* exactly the original Markdown text: nothing in the input ends the literal
\* early, triggers interpolation or changes the text the viewer parses.
C13_LiteralRoundTrip ==
    exp.pc = "embedded"
        => LET v == TemplateValue(ScriptBody(exp.out), 2, <<>>)
           IN  v.ok /\ v.text = exp.text

\* C14: a temperature passed by the caller is the request's temperature
\* whatever its value (0 included) and whatever the session holds; only when
\* none is passed does the request take the session's llm_temperature, or the
\* default 0.7 when the session has none.
C14_PassedTemperatureWins ==
    cur.req # NoReq
        => cur.req.temp = IF cur.argTemp # None THEN cur.argTemp
                          ELSE Get(cur.sessAtStart.llm_temperature, DefaultTemperature)

\* C15: in any sequence of generate_pdf calls, with the bold font file present
\* or absent at each call, every font name a paragraph style refers to has
\* been registered; with only the regular weight registered the title and
\* heading styles use the regular weight; an export fails only for an absent
\* regular file, with the font-missing error.
C15_StyleFontsRegistered ==
    \A t \in Threads :
        /\ thr[t].pc = "build"
               => /\ {thr[t].fontBold, FontRegularName} \subseteq registry
                  /\ (registry = {FontRegularName} => thr[t].fontBold = FontRegularName)
        /\ thr[t].pc = "failed"
               => thr[t].exc = "FileNotFoundError" /\ ~fileRegular

\* The lines of a section that are not empty once trimmed.
NonEmptyLines(section) == SelectSeq(Split(section), LAMBDA l : Strip(l) # <<>>)

\* How many '#' characters a trimmed line begins with.
LeadingHashes(p) == SetMin({n \in 0..Len(p) : n = Len(p) \/ p[n + 1] # "#"})

RECURSIVE FlowStart(_, _)
\* The position in the flow of the first element of section k.
FlowStart(sections, k) ==
    IF k = 1 THEN 2
    ELSE FlowStart(sections, k - 1) + Len(NonEmptyLines(sections[k - 1])) + 1

LineStyle(p) ==
    IF LeadingHashes(p) >= 2 THEN "h2"
    ELSE IF LeadingHashes(p) = 1 THEN "title"
    ELSE "body"

\* C16: the flow handed to the document builder is one title paragraph, then
\* for each section in order one paragraph per line that is not empty after
\* trimming, in line order, and one spacer; a line starting with '##' is a
\* heading-2 paragraph, one starting with a single '#' a title-style
\* paragraph, any other a body paragraph; heading texts lose their leading
\* '#' characters; 1 + lines + sections elements in all.
C16_DocumentFlow ==
    exp.pc = "built"
        => LET sections == exp.sections
               n == Len(sections)
           IN  /\ Len(exp.story) = FlowStart(sections, n + 1) - 1
               /\ exp.story[1].kind = "para"
               /\ exp.story[1].style = "title"
               /\ \A k \in 1..n :
                     LET ls == NonEmptyLines(sections[k])
                         at == FlowStart(sections, k)
                     IN  /\ \A j \in 1..Len(ls) :
                               LET p == Strip(ls[j])
                                   h == LeadingHashes(p)
                                   el == exp.story[at + j - 1]
                               IN  /\ el.kind = "para"
                                   /\ el.style = LineStyle(p)
                                   /\ el.text = MdToHtmlTags(Strip(SubSeq(p, h + 1, Len(p))))
                         /\ exp.story[at + Len(ls)] = Spacer

\* A built flow of two sections with a heading-2, a title-style and a body
\* paragraph from lines, a padded heading line and a skipped empty line.
C16_Witness ==
    /\ exp.pc = "built"
    /\ Len(exp.sections) = 2
    /\ \E i \in 2..Len(exp.story) : exp.story[i].style = "h2"
    /\ \E i \in 2..Len(exp.story) : exp.story[i].style = "title"
    /\ \E i \in 2..Len(exp.story) : exp.story[i].style = "body"
    /\ \E k \in 1..2 : \E l \in 1..Len(Split(exp.sections[k])) :
          LET line == Split(exp.sections[k])[l]
          IN  line # <<>> /\ Head(line) = " " /\ StartsWith(Strip(line), <<"#">>)
    /\ \E k \in 1..2 : Len(NonEmptyLines(exp.sections[k])) < Len(Split(exp.sections[k]))
    /\ Len(exp.story) = 1 + Len(NonEmptyLines(exp.sections[1]))
                          + Len(NonEmptyLines(exp.sections[2])) + 2

====
